---- MODULE Spec2Model ----
(***************************************************************************)
(* Model of frontend/src/data/generateTexasData.js: the three field        *)
(* builders generateTexasHexData, generateTexasTemperatureData and         *)
(* generateTexasCombinedData, with the seeded generator, the influence     *)
(* model and the normalisation they use.                                   *)
(*                                                                         *)
(* Numbers.  JavaScript doubles are modelled in fixed point:               *)
(*   - latitudes, longitudes and radii in hundredths of a degree;          *)
(*   - source weights in hundredths;                                       *)
(*   - Math.exp(-x) in thousandths (EXP_SCALE), x quantised to eighths;    *)
(*   - raw surplus values in units of 1/(100 * EXP_SCALE);                 *)
(*   - scores in thousandths (SCALE);                                      *)
(*   - a generator draw r by the top 16 bits of the 32-bit register.       *)
(* A value that can be NaN or infinite is a record [k, v] with k one of    *)
(* "num", "nan", "inf" (v the fixed-point value, or the sign of the        *)
(* infinity).  The 32-bit register is kept as two 16-bit halves so that    *)
(* the recurrence is computed without leaving 32-bit arithmetic.           *)
(*                                                                         *)
(* The tiler (h3.polygonToCells, h3.cellToLatLng) is an external service:  *)
(* cells are small integers, the tiling of resolution r is <<1, ..., r>>,  *)
(* and cellToLatLng is a fixed table.  The source tables are drawn in Init *)
(* from a small pool of configurations.                                    *)
(***************************************************************************)
EXTENDS Integers, Sequences, FiniteSets, TLC

(* ------------------------------ bounds --------------------------------- *)

\* Resolutions 0 .. MaxRes are tried; resolution r tiles the region with r cells.
MaxRes == 3

\* Each exported builder is called at most MaxCalls times in a behaviour.
MaxCalls == 2

\* A generator taken on its own is drawn from at most MaxDraws times.
MaxDraws == 3

(* -------------------------- fixed-point scales ------------------------- *)

SCALE == 1000

EXP_SCALE == 1000

(* ------------------------- JavaScript numbers -------------------------- *)

Num(v) == [k |-> "num", v |-> v]

NaN == [k |-> "nan", v |-> 0]

Infinity == [k |-> "inf", v |-> 1]

NegInfinity == [k |-> "inf", v |-> -1]

IsNum(x) == x.k = "num"

Abs(n) == IF n < 0 THEN -n ELSE n

Sign(n) == IF n < 0 THEN -1 ELSE IF n > 0 THEN 1 ELSE 0

\* n / d rounded to the nearest integer, ties away from zero (symmetric in the
\* sign of n, as IEEE rounding is); d > 0.
Rnd(n, d) == Sign(n) * ((2 * Abs(n) + d) \div (2 * d))

\* x - y
JsSub(x, y) ==
    IF x.k = "nan" \/ y.k = "nan" THEN NaN
    ELSE IF x.k = "inf" /\ y.k = "inf" THEN (IF x.v = y.v THEN NaN ELSE x)
    ELSE IF x.k = "inf" THEN x
    ELSE IF y.k = "inf" THEN [k |-> "inf", v |-> -y.v]
    ELSE Num(x.v - y.v)

\* x + y
JsAdd(x, y) == JsSub(x, [k |-> y.k, v |-> -y.v])

\* x / y for two values of the same unit; the quotient is in units of 1/SCALE.
JsDiv(x, y) ==
    IF x.k = "nan" \/ y.k = "nan" THEN NaN
    ELSE IF x.k = "inf" /\ y.k = "inf" THEN NaN
    ELSE IF x.k = "inf" THEN [k |-> "inf", v |-> x.v * (IF y.v < 0 THEN -1 ELSE 1)]
    ELSE IF y.k = "inf" THEN Num(0)
    ELSE IF y.v = 0 THEN (IF x.v = 0 THEN NaN ELSE [k |-> "inf", v |-> Sign(x.v)])
    ELSE Num(Sign(y.v) * Rnd(x.v * SCALE, Abs(y.v)))

\* x * y for two values in units of 1/SCALE (both finite or NaN here).
JsMul(x, y) ==
    IF x.k = "nan" \/ y.k = "nan" THEN NaN
    ELSE IF x.k = "inf" \/ y.k = "inf"
         THEN (IF x.v = 0 \/ y.v = 0 THEN NaN ELSE [k |-> "inf", v |-> Sign(x.v) * Sign(y.v)])
    ELSE Num(Rnd(x.v * y.v, SCALE))

\* x < y as JavaScript compares: false when either side is NaN.
JsLess(x, y) ==
    IF x.k = "nan" \/ y.k = "nan" THEN FALSE
    ELSE IF x.k = "inf" THEN (x.v < 0 /\ ~(y.k = "inf" /\ y.v < 0))
    ELSE IF y.k = "inf" THEN y.v > 0
    ELSE x.v < y.v

\* Math.min(a, b) and Math.max(a, b): NaN when either argument is NaN.
MathMin2(x, y) ==
    IF x.k = "nan" \/ y.k = "nan" THEN NaN ELSE IF JsLess(y, x) THEN y ELSE x

MathMax2(x, y) ==
    IF x.k = "nan" \/ y.k = "nan" THEN NaN ELSE IF JsLess(x, y) THEN y ELSE x

RECURSIVE MathMin(_)
\* Math.min(...xs): Infinity for no arguments.
MathMin(xs) ==
    IF xs = <<>> THEN Infinity ELSE MathMin2(Head(xs), MathMin(Tail(xs)))

RECURSIVE MathMax(_)
\* Math.max(...xs): -Infinity for no arguments.
MathMax(xs) ==
    IF xs = <<>> THEN NegInfinity ELSE MathMax2(Head(xs), MathMax(Tail(xs)))

\* Math.max(0, Math.min(1, x)) on a score in units of 1/SCALE.
Clamp01(x) == MathMax2(Num(0), MathMin2(Num(SCALE), x))

\* Math.round(n / d) for a finite quotient: the nearest integer, ties upwards; d > 0.
MathRound(n, d) == (2 * n + d) \div (2 * d)

(* -------------------------- seeded generator --------------------------- *)

LCG_A_HI == 25

LCG_A_LO == 26125

LCG_C_HI == 15470

LCG_C_LO == 62303

HALF == 65536

\* The register holding the 32-bit value n (0 <= n < 2^31 here: a seed).  A
\* register is the bit pattern of the closure's s, as two 16-bit halves.
Reg32(n) == [hi |-> n \div HALF, lo |-> n % HALF]

\* The value of the bit pattern s read as a signed 32-bit integer, which is
\* what `& 0xffffffff` leaves in s: a sign and a magnitude of at most 2^31.
Int32Of(s) ==
    IF s.hi < HALF \div 2
    THEN [neg |-> FALSE, hi |-> s.hi, lo |-> s.lo]
    ELSE [neg |-> TRUE,
          hi |-> (HALF - 1 - s.hi) + (IF s.lo = 0 THEN 1 ELSE 0),
          lo |-> (HALF - s.lo) % HALF]

\* The value of the bit pattern s read as an unsigned 32-bit integer: s >>> 0.
Uint32Of(s) == [neg |-> FALSE, hi |-> s.hi, lo |-> s.lo]

\* The number of bits of a natural number.
RECURSIVE BitLen(_)
BitLen(n) == IF n = 0 THEN 0 ELSE 1 + BitLen(n \div 2)

\* 2^n.
RECURSIVE Pow2(_)
Pow2(n) == IF n = 0 THEN 1 ELSE 2 * Pow2(n - 1)

\* The largest top digit of a magnitude d2 * 2^32 + d1 * 2^16 + d0 that a
\* double holds exactly whatever the lower digits are: below 2^21, so that the
\* magnitude is below 2^53.
EXACT_BITS == 53 - 32

\* A magnitude after the rounding of a double operation: unchanged below 2^53,
\* else rounded to the nearest multiple of the spacing of doubles at that
\* size, ties to the even multiple.
DoubleRound(x) ==
    IF BitLen(x.d2) <= EXACT_BITS THEN x
    ELSE LET q == Pow2(BitLen(x.d2) - EXACT_BITS)
             rem == x.d0 % q
             up == \/ 2 * rem > q
                   \/ 2 * rem = q /\ (x.d0 \div q) % 2 = 1
             e0 == (x.d0 - rem) + (IF up THEN q ELSE 0)
             e1 == x.d1 + (e0 \div HALF)
         IN  [d2 |-> x.d2 + (e1 \div HALF), d1 |-> e1 % HALF, d0 |-> e0 % HALF]

\* The magnitude of s * 1664525 as the double multiplication yields it, for a
\* signed 32-bit s (v): 1664525 = 25 * 2^16 + 26125.
LcgProduct(v) ==
    LET t0 == v.lo * LCG_A_LO
        t1 == v.hi * LCG_A_LO + v.lo * LCG_A_HI + (t0 \div HALF)
        t2 == v.hi * LCG_A_HI + (t1 \div HALF)
    IN  DoubleRound([d2 |-> t2, d1 |-> t1 % HALF, d0 |-> t0 % HALF])

\* product + 1013904223 as the double addition yields it, the product having
\* the magnitude p and being negative when neg: 1013904223 = 15470 * 2^16 +
\* 62303.  The result is a sign and a magnitude.
LcgSum(neg, p) ==
    IF ~neg
    THEN LET e0 == p.d0 + LCG_C_LO
             e1 == p.d1 + LCG_C_HI + (e0 \div HALF)
         IN  [neg |-> FALSE,
              mag |-> DoubleRound([d2 |-> p.d2 + (e1 \div HALF),
                                   d1 |-> e1 % HALF, d0 |-> e0 % HALF])]
    ELSE IF p.d2 = 0 /\ (p.d1 < LCG_C_HI \/ (p.d1 = LCG_C_HI /\ p.d0 <= LCG_C_LO))
    THEN LET e0 == LCG_C_LO - p.d0
             b0 == IF e0 < 0 THEN 1 ELSE 0
         IN  [neg |-> FALSE,
              mag |-> [d2 |-> 0, d1 |-> LCG_C_HI - p.d1 - b0, d0 |-> (e0 + HALF) % HALF]]
    ELSE LET e0 == p.d0 - LCG_C_LO
             b0 == IF e0 < 0 THEN 1 ELSE 0
             e1 == p.d1 - LCG_C_HI - b0
             b1 == IF e1 < 0 THEN 1 ELSE 0
         IN  [neg |-> TRUE,
              mag |-> DoubleRound([d2 |-> p.d2 - b1, d1 |-> (e1 + HALF) % HALF,
                                   d0 |-> (e0 + HALF) % HALF])]

\* x & 0xffffffff for an integral double x: the low 32 bits of its two's
\* complement, as a register.
ToInt32(x) ==
    IF ~x.neg THEN [hi |-> x.mag.d1, lo |-> x.mag.d0]
    ELSE [hi |-> (HALF - 1 - x.mag.d1 + (IF x.mag.d0 = 0 THEN 1 ELSE 0)) % HALF,
          lo |-> (HALF - x.mag.d0) % HALF]

\* s = (s * 1664525 + 1013904223) & 0xffffffff, in the double arithmetic of
\* the language: the product and the sum of the signed s, then the low 32 bits.
LcgNext(s) ==
    LET v == Int32Of(s)
    IN  ToInt32(LcgSum(v.neg, LcgProduct(v)))

\* seededRandom(seed): the closure's register starts at the seed.
seededRandom(seed) == Reg32(seed)

\* The top 16 bits of the numerator of a returned value v / 0xffffffff, with
\* its sign: the value is Top16 / 65535 to within 2^-16.
Top16(v) == IF v.neg THEN 0 - v.hi ELSE v.hi

\* A closure that returns the register's value before it advances it.
randBeforeStep(s) == [s |-> LcgNext(s), value |-> Uint32Of(s), r |-> s.hi]

\* A closure that returns s / 0xffffffff, the signed register, without >>> 0.
randSigned(s) ==
    LET n == LcgNext(s)
    IN  [s |-> n, value |-> Int32Of(n), r |-> Top16(Int32Of(n))]

\* One call of the closure from register s: the new register and the value
\* returned, (s >>> 0) / 0xffffffff: its numerator (value) and, as the draw
\* the builders use, the numerator's top 16 bits (r = top / 65535).
rand(s) ==
    LET n == LcgNext(s)
    IN  [s |-> n, value |-> Uint32Of(n), r |-> Top16(Uint32Of(n))]

\* (r - 0.5) * amp, amp in hundredths, the result in units of 1/SCALE.
Noise(r, amp) == Rnd((2 * r - (HALF - 1)) * ((amp * SCALE) \div 200), HALF - 1)

(* ------------------------------ the tiler ------------------------------ *)

\* h3.polygonToCells(TEXAS_POLYGON, resolution): the cell list of a resolution.
polygonToCells(res) == [i \in 1 .. res |-> i]

\* h3.cellToLatLng(h3Index), in hundredths of a degree.  Cell 1 lies at
\* (32.00, -97.00); the others on a 3-degree lattice south and west of it.
cellToLatLng(h3Index) ==
    [lat |-> 3200 - 300 * ((h3Index - 1) \div 2),
     lng |-> -9700 - 300 * ((h3Index - 1) % 2)]

(* --------------------------- influence model --------------------------- *)

\* round(EXP_SCALE * exp(-k / 8)) for k = 0, 1, ...; 0 from k = 61 on.
EXP_TABLE ==
    << 1000, 882, 779, 687, 607, 535, 472, 417, 368, 325, 287, 253, 223, 197,
       174, 153, 135, 119, 105, 93, 82, 72, 64, 56, 50, 44, 39, 34, 30, 27, 24,
       21, 18, 16, 14, 13, 11, 10, 9, 8, 7, 6, 5, 5, 4, 4, 3, 3, 2, 2, 2, 2, 2,
       1, 1, 1, 1, 1, 1, 1, 1 >>

\* Math.exp(-(k / 8)), k >= 0, in units of 1/EXP_SCALE.
MathExpNeg(k) == IF k + 1 <= Len(EXP_TABLE) THEN EXP_TABLE[k + 1] ELSE 0

\* weight * exp(-(dlat^2 / (2 radLat^2) + dlng^2 / (2 radLng^2))), the exponent
\* in eighths; the result in units of 1/(100 * EXP_SCALE).
anisotropicGaussian(cellLat, cellLng, source) ==
    LET dlat == cellLat - source.lat
        dlng == cellLng - source.lng
    IN  source.weight *
        MathExpNeg(Rnd(4 * dlat * dlat, source.radLat * source.radLat)
                   + Rnd(4 * dlng * dlng, source.radLng * source.radLng))

Source(lat, lng, weight, radLat, radLng) ==
    [lat |-> lat, lng |-> lng, weight |-> weight, radLat |-> radLat, radLng |-> radLng]

\* The configurations of SUPPLY_SOURCES the model draws from: the example source
\* of the specification (weight 1.0 at (32.00, -97.00), radii 1.0), alone or
\* followed by the Roscoe wind corridor.
SupplyConfigs ==
    { << Source(3200, -9700, 100, 100, 100) >>,
      << Source(3200, -9700, 100, 100, 100), Source(3226, -10034, 95, 250, 120) >> }

\* The configurations of DEMAND_SINKS: none, the exact opposite of the example
\* source, or Houston and Dallas.
SinkConfigs ==
    { << >>,
      << Source(3200, -9700, -100, 100, 100) >>,
      << Source(2975, -9536, -100, 140, 140), Source(3278, -9681, -95, 110, 110) >> }

RECURSIVE SumGaussians(_, _, _)
\* for (const src of sources) score += anisotropicGaussian(lat, lng, src)
SumGaussians(lat, lng, sources) ==
    IF sources = <<>> THEN 0
    ELSE anisotropicGaussian(lat, lng, Head(sources)) + SumGaussians(lat, lng, Tail(sources))

\* A first pass that leaves the demand sinks out.
RawScoreSupplyOnly(h3Index, supply, sinks) ==
    LET p == cellToLatLng(h3Index)
    IN  SumGaussians(p.lat, p.lng, supply)

\* The first pass's value of one cell: all supply sources, then all demand sinks.
RawScore(h3Index, supply, sinks) ==
    LET p == cellToLatLng(h3Index)
    IN  SumGaussians(p.lat, p.lng, supply) + SumGaussians(p.lat, p.lng, sinks)

(* ------------------------------ constants ------------------------------ *)

\* The bounds of Texas, in hundredths of a degree: 25.8, 36.5, -106.6, -93.5.

LAT_MIN == 2580

LAT_MAX == 3650

LNG_MIN == -10660

LNG_MAX == -9350

SURPLUS_SEED == 42

TEMP_SEED == 99

\* Jitter amplitudes, in hundredths: 0.06 and 0.12.
SURPLUS_JITTER == 6

TEMP_JITTER == 12

\* surplusMwh = Math.round(score * 8000)
SURPLUS_MWH_MAX == 8000

\* tempF = Math.round(65 + score * 50)
TEMP_F_MIN == 65

TEMP_F_SPAN == 50

(* --------------------------- record builders --------------------------- *)

\* Math.round(offset + score * span) of a score in units of 1/SCALE.
DisplayValue(score, offset, span) ==
    IF IsNum(score) THEN Num(MathRound(offset * SCALE + score.v * span, SCALE)) ELSE score

\* One record of generateTexasHexData's second pass: raw is the cell's raw
\* value, minRaw and range the first pass's statistics, r the value drawn.
HexRecord(h3Index, raw, minRaw, range, r) ==
    LET noise == Noise(r, SURPLUS_JITTER)
        score == Clamp01(JsAdd(JsDiv(JsSub(Num(raw), minRaw), range), Num(noise)))
    IN  [h3Index |-> h3Index, score |-> score,
         surplusMwh |-> DisplayValue(score, 0, SURPLUS_MWH_MAX)]

\* One record of generateTexasTemperatureData: r is the value drawn.
TempRecord(h3Index, r) ==
    LET p == cellToLatLng(h3Index)
        latNorm == Rnd((p.lat - LAT_MIN) * SCALE, LAT_MAX - LAT_MIN)
        lngNorm == Rnd((p.lng - LNG_MIN) * SCALE, LNG_MAX - LNG_MIN)
        base == Rnd(65 * (SCALE - latNorm), 100) + Rnd(20 * (SCALE - lngNorm), 100)
        noise == Noise(r, TEMP_JITTER)
        score == Clamp01(Num(base + noise))
    IN  [h3Index |-> h3Index, score |-> score,
         tempF |-> DisplayValue(score, TEMP_F_MIN, TEMP_F_SPAN)]

\* s.score * temp[i].score: the temperature not inverted.
CombinedRawNotInverted(a, b) == JsMul(a, b)

\* s.score * (1 - temp[i].score)
CombinedRaw(a, b) == JsMul(a, JsSub(Num(SCALE), b))

\* generateTexasCombinedData after its two calls: pairs surplus[i] with temp[i].
\* Reading temp[i].score beyond temp's length throws a TypeError.
CombinedData(surplus, temp) ==
    IF Len(temp) < Len(surplus) THEN [outcome |-> "TypeError", data |-> <<>>]
    ELSE
        LET raw == [i \in 1 .. Len(surplus) |-> CombinedRaw(surplus[i].score, temp[i].score)]
            minRaw == MathMin(raw)
            maxRaw == MathMax(raw)
            range == JsSub(maxRaw, minRaw)
        IN  [outcome |-> "ok",
             data |-> [i \in 1 .. Len(surplus) |->
                         [h3Index |-> surplus[i].h3Index,
                          score |-> JsDiv(JsSub(raw[i], minRaw), range),
                          surplusMwh |-> surplus[i].surplusMwh,
                          tempF |-> temp[i].tempF]]]

(* -------------------------------- state -------------------------------- *)

\* The three exported builders run as frames "S" (generateTexasHexData), "T"
\* (generateTexasTemperatureData) and "C" (generateTexasCombinedData); "CS" and
\* "CT" are the two calls the combined builder makes.  Frames advance one cell
\* at a time and may interleave in any order.
HexFrames == {"S", "CS"}

TempFrames == {"T", "CT"}

BuildFrames == HexFrames \cup TempFrames

Exported == {"S", "T", "C"}

VARIABLES
    SUPPLY_SOURCES,  \* the configured supply sources
    DEMAND_SINKS,    \* the configured demand sinks
    resolution,      \* the resolution every call is made with
    tiling,          \* what h3.polygonToCells answers
    pc,              \* the position of each frame
    cells,           \* cells[f]: the frame's cell list
    reg,             \* reg[g]: the register s of generator g
    rawScores,       \* rawScores[f]: the first pass's values (hex frames)
    stats,           \* stats[f]: minRaw, maxRaw and range (hex frames)
    data,            \* data[f]: the records built so far
    draws,           \* draws[f]: how many values the frame has drawn in this call
    hist             \* hist[f]: what the exported builder f has returned, call by call

vars ==
    << SUPPLY_SOURCES, DEMAND_SINKS, resolution, tiling, pc, cells, reg,
       rawScores, stats, data, draws, hist >>

config == << SUPPLY_SOURCES, DEMAND_SINKS, resolution >>

\* One generator shared by every frame (a module-level closure).
GenShared(f) == "S"

\* The generator a frame draws from: the closure rand created by its own call
\* of seededRandom.
GenOf(f) == f

\* A register that is seeded when the module loads and never again.
KeepRegister(old, seed) == old

\* let s = seed: a call of seededRandom starts a register of its own at the
\* seed, whatever any earlier register (old) holds.
NewRegister(old, seed) == seededRandom(seed)

NoStats == [minRaw |-> Num(0), maxRaw |-> Num(0), range |-> Num(0)]

Init ==
    /\ SUPPLY_SOURCES \in SupplyConfigs
    /\ DEMAND_SINKS \in SinkConfigs
    /\ resolution \in 0 .. MaxRes
    /\ tiling = polygonToCells(resolution)
    /\ pc = [f \in BuildFrames \cup {"C"} |-> "idle"]
    /\ cells = [f \in BuildFrames |-> <<>>]
    /\ reg = [g \in BuildFrames |-> Reg32(0)]
    /\ rawScores = [f \in HexFrames |-> <<>>]
    /\ stats = [f \in HexFrames |-> NoStats]
    /\ data = [f \in BuildFrames |-> <<>>]
    /\ draws = [f \in BuildFrames |-> 0]
    /\ hist = [f \in Exported |-> <<>>]

(* ------------------------ generateTexasHexData ------------------------- *)

\* Lines 162-163: the tiler is asked for the cells and the generator is seeded.
HexEnter(f) ==
    /\ cells' = [cells EXCEPT ![f] = tiling]
    /\ reg' = [reg EXCEPT ![GenOf(f)] = NewRegister(@, SURPLUS_SEED)]
    /\ rawScores' = [rawScores EXCEPT ![f] = <<>>]
    /\ stats' = [stats EXCEPT ![f] = NoStats]
    /\ data' = [data EXCEPT ![f] = <<>>]
    /\ draws' = [draws EXCEPT ![f] = 0]

\* A call of the exported generateTexasHexData.
HexCall ==
    /\ pc["S"] = "idle"
    /\ Len(hist["S"]) < MaxCalls
    /\ HexEnter("S")
    /\ pc' = [pc EXCEPT !["S"] = "pass1"]
    /\ UNCHANGED << config, tiling, hist >>

\* The raw values of a cell list, then their minimum, maximum and range.
FirstPass(cs, supply, sinks) ==
    LET raw == [i \in 1 .. Len(cs) |-> RawScore(cs[i], supply, sinks)]
        asNum == [i \in 1 .. Len(cs) |-> Num(raw[i])]
    IN  [rawScores |-> raw,
         stats |-> [minRaw |-> MathMin(asNum), maxRaw |-> MathMax(asNum),
                    range |-> JsSub(MathMax(asNum), MathMin(asNum))]]

\* Lines 166-176: the first pass over all cells.
HexFirstPass(f) ==
    /\ pc[f] = "pass1"
    /\ LET fp == FirstPass(cells[f], SUPPLY_SOURCES, DEMAND_SINKS)
       IN  /\ rawScores' = [rawScores EXCEPT ![f] = fp.rawScores]
           /\ stats' = [stats EXCEPT ![f] = fp.stats]
    /\ pc' = [pc EXCEPT ![f] = "pass2"]
    /\ UNCHANGED << config, tiling, cells, reg, data, draws, hist >>

\* Lines 179-184, one cell: draw a value, build the record.
HexSecondPass(f) ==
    /\ pc[f] = "pass2"
    /\ Len(data[f]) < Len(cells[f])
    /\ LET i == Len(data[f]) + 1
           d == rand(reg[GenOf(f)])
       IN  /\ reg' = [reg EXCEPT ![GenOf(f)] = d.s]
           /\ data' = [data EXCEPT ![f] =
                 Append(@, HexRecord(cells[f][i], rawScores[f][i],
                                     stats[f].minRaw, stats[f].range, d.r))]
    /\ draws' = [draws EXCEPT ![f] = @ + 1]
    /\ UNCHANGED << config, tiling, pc, cells, rawScores, stats, hist >>

\* The frame has built every record (line 186 is reached).
Finished(f) ==
    /\ pc[f] = IF f \in HexFrames THEN "pass2" ELSE "map"
    /\ Len(data[f]) = Len(cells[f])

\* Line 186: return data.
HexReturn ==
    /\ Finished("S")
    /\ hist' = [hist EXCEPT !["S"] = Append(@, [outcome |-> "ok", data |-> data["S"]])]
    /\ pc' = [pc EXCEPT !["S"] = "idle"]
    /\ UNCHANGED << config, tiling, cells, reg, rawScores, stats, data, draws >>

(* -------------------- generateTexasTemperatureData --------------------- *)

\* Lines 139-140.
TempEnter(f) ==
    /\ cells' = [cells EXCEPT ![f] = tiling]
    /\ reg' = [reg EXCEPT ![GenOf(f)] = NewRegister(@, TEMP_SEED)]
    /\ data' = [data EXCEPT ![f] = <<>>]
    /\ draws' = [draws EXCEPT ![f] = 0]

\* A call of the exported generateTexasTemperatureData.
TempCall ==
    /\ pc["T"] = "idle"
    /\ Len(hist["T"]) < MaxCalls
    /\ TempEnter("T")
    /\ pc' = [pc EXCEPT !["T"] = "map"]
    /\ UNCHANGED << config, tiling, rawScores, stats, hist >>

\* Lines 142-158, one cell.
TempStep(f) ==
    /\ pc[f] = "map"
    /\ Len(data[f]) < Len(cells[f])
    /\ LET i == Len(data[f]) + 1
           d == rand(reg[GenOf(f)])
       IN  /\ reg' = [reg EXCEPT ![GenOf(f)] = d.s]
           /\ data' = [data EXCEPT ![f] = Append(@, TempRecord(cells[f][i], d.r))]
    /\ draws' = [draws EXCEPT ![f] = @ + 1]
    /\ UNCHANGED << config, tiling, pc, cells, rawScores, stats, hist >>

\* The map's result is returned.
TempReturn ==
    /\ Finished("T")
    /\ hist' = [hist EXCEPT !["T"] = Append(@, [outcome |-> "ok", data |-> data["T"]])]
    /\ pc' = [pc EXCEPT !["T"] = "idle"]
    /\ UNCHANGED << config, tiling, cells, reg, rawScores, stats, data, draws >>

(* ---------------------- generateTexasCombinedData ---------------------- *)

\* Line 190: the call enters generateTexasHexData.
CombinedCall ==
    /\ pc["C"] = "idle"
    /\ Len(hist["C"]) < MaxCalls
    /\ HexEnter("CS")
    /\ pc' = [pc EXCEPT !["C"] = "surplus", !["CS"] = "pass1"]
    /\ UNCHANGED << config, tiling, hist >>

\* Line 191: the surplus field has been returned; generateTexasTemperatureData is entered.
CombinedCallTemp ==
    /\ pc["C"] = "surplus"
    /\ Finished("CS")
    /\ TempEnter("CT")
    /\ pc' = [pc EXCEPT !["C"] = "temp", !["CS"] = "idle", !["CT"] = "map"]
    /\ UNCHANGED << config, tiling, rawScores, stats, hist >>

\* Lines 194-205: both fields are there; they are combined and returned.
CombinedReturn ==
    /\ pc["C"] = "temp"
    /\ Finished("CT")
    /\ hist' = [hist EXCEPT !["C"] = Append(@, CombinedData(data["CS"], data["CT"]))]
    /\ pc' = [pc EXCEPT !["C"] = "idle", !["CT"] = "idle"]
    /\ UNCHANGED << config, tiling, cells, reg, rawScores, stats, data, draws >>

(* ---------------------------- specification ---------------------------- *)

Next ==
    \/ HexCall
    \/ \E f \in HexFrames : HexFirstPass(f)
    \/ \E f \in HexFrames : HexSecondPass(f)
    \/ HexReturn
    \/ TempCall
    \/ \E f \in TempFrames : TempStep(f)
    \/ TempReturn
    \/ CombinedCall
    \/ CombinedCallTemp
    \/ CombinedReturn

Spec == Init /\ [][Next]_vars

(* ------------------- a tiler that changes its answer ------------------- *)

Reverse(s) == [i \in 1 .. Len(s) |-> s[Len(s) + 1 - i]]

\* The answers that differ from t in order, in length or in membership.
OtherAnswers(t) ==
    IF t = <<>> THEN {}
    ELSE { Reverse(t), SubSeq(t, 1, Len(t) - 1), [t EXCEPT ![Len(t)] = MaxRes + 1] } \ { t }

\* Between two calls of h3.polygonToCells the tiler's answer changes, once.
TilerChanges ==
    /\ tiling = polygonToCells(resolution)
    /\ tiling' \in OtherAnswers(tiling)
    /\ UNCHANGED << config, pc, cells, reg, rawScores, stats, data, draws, hist >>

\* Calls of generateTexasCombinedData against such a tiler.
NextTiler ==
    \/ CombinedCall
    \/ HexFirstPass("CS")
    \/ HexSecondPass("CS")
    \/ CombinedCallTemp
    \/ TempStep("CT")
    \/ CombinedReturn
    \/ TilerChanges

SpecTiler == Init /\ [][NextTiler]_vars

(* ---------------------- the generator on its own ----------------------- *)

\* The halves the registers below are made of: the ends and the middle of a
\* half's range, the two seeds, and the halves of the two registers whose
\* successors are 0 and 2^32 - 1, the values returned then being 0 and 1.
EdgeHalves ==
    {0, 1, SURPLUS_SEED, TEMP_SEED, HALF \div 2 - 1, HALF \div 2, HALF - 1,
     9686, 4069, 9973, 46880}

\* Registers a closure can hold between two calls.  The multiplier is 1 more
\* than a multiple of 4 and the increment is odd, so the recurrence has one
\* cycle, of length 2^32: from either seed every 32-bit pattern comes up.
LcgRegisters == {[hi |-> h, lo |-> l] : h \in EdgeHalves, l \in EdgeHalves}

\* The closure of the surplus builder somewhere along its sequence, no builder
\* running.
InitLcg ==
    /\ SUPPLY_SOURCES \in SupplyConfigs
    /\ DEMAND_SINKS \in SinkConfigs
    /\ resolution = 0
    /\ tiling = polygonToCells(resolution)
    /\ pc = [f \in BuildFrames \cup {"C"} |-> "idle"]
    /\ cells = [f \in BuildFrames |-> <<>>]
    /\ \E s \in LcgRegisters : reg = [g \in BuildFrames |-> IF g = "S" THEN s ELSE Reg32(0)]
    /\ rawScores = [f \in HexFrames |-> <<>>]
    /\ stats = [f \in HexFrames |-> NoStats]
    /\ data = [f \in BuildFrames |-> <<>>]
    /\ draws = [f \in BuildFrames |-> 0]
    /\ hist = [f \in Exported |-> <<>>]

\* Lines 128-131: one call of rand().
LcgDraw ==
    /\ draws["S"] < MaxDraws
    /\ reg' = [reg EXCEPT !["S"] = rand(@).s]
    /\ draws' = [draws EXCEPT !["S"] = @ + 1]
    /\ UNCHANGED << config, tiling, pc, cells, rawScores, stats, data, hist >>

NextLcg == LcgDraw

SpecLcg == InitLcg /\ [][NextLcg]_vars

(* ------------------------------- claims -------------------------------- *)

Last(s) == s[Len(s)]

\* A score that is a number in [0, 1].
ScoreIn01(x) == IsNum(x) /\ 0 <= x.v /\ x.v <= SCALE

\* C1: every score returned by any of the three builders lies in [0, 1], for
\* every tiling with at least one cell (one-cell tilings and tilings whose raw
\* values are all equal included).
C1_ScoresIn01 ==
    \A f \in Exported : \A k \in 1 .. Len(hist[f]) :
        \A i \in 1 .. Len(hist[f][k].data) : ScoreIn01(hist[f][k].data[i].score)

\* C2: with the tiling, the seeds and the jitter amplitudes fixed, all calls of
\* one builder return the same sequence of records, whatever other builds ran
\* before or between them.
C2_Reproducible ==
    \A f \in Exported : \A j, k \in 1 .. Len(hist[f]) : hist[f][j] = hist[f][k]

\* C2's case: every builder has returned twice, over at least two cells, and
\* the two surplus fields carry jitter (some score is strictly inside (0, 1)).
C2_Witness ==
    /\ Len(tiling) >= 2
    /\ \A f \in Exported : Len(hist[f]) = 2
    /\ \E i \in 1 .. Len(tiling) :
          LET s == hist["S"][2].data[i].score
          IN  IsNum(s) /\ 0 < s.v /\ s.v < SCALE

RECURSIVE IterLcg(_, _)
\* The register after n steps of the recurrence from s.
IterLcg(s, n) == IF n = 0 THEN s ELSE LcgNext(IterLcg(s, n - 1))

\* The combined builder has returned, and data["CS"], data["CT"] are the two
\* fields its last call combined.
CombinedDone == pc["C"] = "idle" /\ hist["C"] # <<>>

\* surplus[i].score * (1 - temp[i].score), from the two fields' scores.
C3_Raw(a, b) ==
    IF IsNum(a) /\ IsNum(b) THEN Num(Rnd(a.v * (SCALE - b.v), SCALE)) ELSE NaN

\* C3: the combined field is raw[i] = A.score[i] * (1 - B.score[i]) followed by
\* one min-max normalisation score[i] = (raw[i] - min) / (max - min), which
\* draws no value from any generator and adds no jitter; so when max > min a
\* cell of minimal raw value scores exactly 0 and one of maximal raw value
\* exactly 1 (and when max > min does not hold, the quotient is NaN).
C3_CombinedFormula ==
    CombinedDone =>
        LET A == data["CS"]
            B == data["CT"]
            out == Last(hist["C"]).data
            n == Len(A)
            raw == [i \in 1 .. n |-> C3_Raw(A[i].score, B[i].score)]
        IN  /\ Len(out) = n
            /\ reg["CS"] = IterLcg(Reg32(SURPLUS_SEED), n)
            /\ reg["CT"] = IterLcg(Reg32(TEMP_SEED), n)
            /\ \A i \in 1 .. n : out[i].h3Index = A[i].h3Index
            /\ IF \A i \in 1 .. n : IsNum(raw[i])
               THEN \A lo, hi \in 1 .. n :
                      (\A i \in 1 .. n : raw[lo].v <= raw[i].v /\ raw[i].v <= raw[hi].v) =>
                         IF raw[hi].v > raw[lo].v
                         THEN \A i \in 1 .. n :
                                /\ out[i].score =
                                     Num(Rnd((raw[i].v - raw[lo].v) * SCALE, raw[hi].v - raw[lo].v))
                                /\ raw[i] = raw[lo] => out[i].score = Num(0)
                                /\ raw[i] = raw[hi] => out[i].score = Num(SCALE)
                         ELSE \A i \in 1 .. n : out[i].score = NaN
               ELSE \A i \in 1 .. n : out[i].score = NaN

\* C3's case: a combined field over at least two cells whose raw values differ,
\* holding a record of score 0, one of score 1 and one strictly between.
C3_Witness ==
    /\ CombinedDone
    /\ LET out == Last(hist["C"]).data
       IN  /\ \E i \in 1 .. Len(out) : out[i].score = Num(0)
           /\ \E i \in 1 .. Len(out) : out[i].score = Num(SCALE)
           /\ \E i \in 1 .. Len(out) :
                 IsNum(out[i].score) /\ 0 < out[i].score.v /\ out[i].score.v < SCALE

\* s is a prefix of t.
IsPrefix(s, t) == Len(s) <= Len(t) /\ \A i \in 1 .. Len(s) : s[i] = t[i]

\* C4: each build owns its generator, started from its own seed (42 for
\* surplus, 99 for temperature) and stepped by that build alone: under every
\* interleaving of surplus, temperature and combined builds the register of a
\* running build is exactly as many steps from its seed as the build has drawn
\* values, and the surplus and temperature fields built
\* inside generateTexasCombinedData are, record by record, those standalone
\* calls return, and each combined record carries the standalone fields'
\* surplusMwh and tempF of the same cell.
C4_Independent ==
    /\ \A f \in BuildFrames : pc[f] # "idle" =>
          reg[f] = IterLcg(Reg32(IF f \in HexFrames THEN SURPLUS_SEED ELSE TEMP_SEED), draws[f])
    /\ \A k \in 1 .. Len(hist["S"]) : IsPrefix(data["CS"], hist["S"][k].data)
    /\ \A k \in 1 .. Len(hist["T"]) : IsPrefix(data["CT"], hist["T"][k].data)
    /\ \A j \in 1 .. Len(hist["C"]) : \A i \in 1 .. Len(hist["C"][j].data) :
          LET c == hist["C"][j].data[i]
          IN  /\ \A k \in 1 .. Len(hist["S"]) :
                    /\ hist["S"][k].data[i].h3Index = c.h3Index
                    /\ hist["S"][k].data[i].surplusMwh = c.surplusMwh
              /\ \A k \in 1 .. Len(hist["T"]) :
                    /\ hist["T"][k].data[i].h3Index = c.h3Index
                    /\ hist["T"][k].data[i].tempF = c.tempF

\* C4's case: standalone surplus and temperature fields and a combined field
\* have been returned over at least two cells, while a standalone surplus build
\* and the combined builder's own surplus build are both in their second pass.
C4_Witness ==
    /\ Len(tiling) >= 2
    /\ hist["S"] # <<>> /\ hist["T"] # <<>> /\ hist["C"] # <<>>
    /\ pc["S"] = "pass2" /\ 0 < Len(data["S"]) /\ Len(data["S"]) < Len(cells["S"])
    /\ pc["CS"] = "pass2" /\ 0 < Len(data["CS"]) /\ Len(data["CS"]) < Len(cells["CS"])
    /\ IsNum(data["CS"][1].score)

\* The exported builder f has returned and its frame still holds that call's state.
Returning(f) == pc[f] = "idle" /\ hist[f] # <<>>

NonFinite(rec) == ~IsNum(rec.score)

\* C5: a raw field whose range is zero, in the surplus normalisation or in the
\* combined field's normalisation, is surfaced as a DegenerateField condition,
\* and no build returns a NaN or infinite score.
C5_DegenerateSurfaced ==
    /\ (Returning("S") /\ cells["S"] # <<>> /\ stats["S"].range = Num(0))
          => Last(hist["S"]).outcome = "DegenerateField"
    /\ (CombinedDone /\ data["CS"] # <<>> /\
        (LET raw == [i \in 1 .. Len(data["CS"]) |->
                        CombinedRaw(data["CS"][i].score, data["CT"][i].score)]
         IN  JsSub(MathMax(raw), MathMin(raw)) = Num(0)))
          => Last(hist["C"]).outcome = "DegenerateField"
    /\ \A f \in Exported : \A k \in 1 .. Len(hist[f]) :
          \A i \in 1 .. Len(hist[f][k].data) : ~NonFinite(hist[f][k].data[i])

\* C6: when the tiler returns no cells, a builder reports a ConfigurationError;
\* it never returns an empty field as a success.
C6_NoEmptySuccess ==
    \A f \in Exported : \A k \in 1 .. Len(hist[f]) :
        ~(hist[f][k].outcome = "ok" /\ hist[f][k].data = <<>>)

\* The cell identifiers of a field, in order.
Ids(field) == [i \in 1 .. Len(field) |-> field[i].h3Index]

C8_DisplayValues ==
    /\ \A k \in 1 .. Len(hist["S"]) : \A i \in 1 .. Len(hist["S"][k].data) :
          LET rec == hist["S"][k].data[i]
          IN  /\ IsNum(rec.surplusMwh)
              /\ 0 <= rec.surplusMwh.v /\ rec.surplusMwh.v <= SURPLUS_MWH_MAX
              /\ IsNum(rec.score)
              /\ rec.surplusMwh.v = (2 * rec.score.v * SURPLUS_MWH_MAX + SCALE) \div (2 * SCALE)
    /\ \A k \in 1 .. Len(hist["T"]) : \A i \in 1 .. Len(hist["T"][k].data) :
          LET rec == hist["T"][k].data[i]
          IN  /\ IsNum(rec.tempF)
              /\ TEMP_F_MIN <= rec.tempF.v /\ rec.tempF.v <= TEMP_F_MIN + TEMP_F_SPAN
              /\ IsNum(rec.score)
              /\ rec.tempF.v =
                    (2 * (TEMP_F_MIN * SCALE + rec.score.v * TEMP_F_SPAN) + SCALE) \div (2 * SCALE)

\* Every configured source: the supply sources, then the demand sinks.
AllSources == SUPPLY_SOURCES \o DEMAND_SINKS

\* The sum of the contributions at (lat, lng) of the sources at the indexes in J.
C9_Sum(lat, lng, J) ==
    LET f[K \in SUBSET J] ==
            IF K = {} THEN 0
            ELSE LET j == CHOOSE j \in K : TRUE
                 IN  anisotropicGaussian(lat, lng, AllSources[j]) + f[K \ {j}]
    IN  f[J]

\* A hex frame that has made its first pass.
PastFirstPass(f) == pc[f] = "pass2"

\* C9: the raw value of a cell is the sum over every configured source (supply
\* sources and demand sinks alike) of its contribution; a source contributes
\* exactly its weight at its own location, so one source alone yields raw = w
\* at zero offset, and two sources at one location with equal radii and weights
\* w and -w yield raw = 0 at every cell.
C9_RawIsSum ==
    /\ \A j \in 1 .. Len(AllSources) :
          anisotropicGaussian(AllSources[j].lat, AllSources[j].lng, AllSources[j])
             = AllSources[j].weight * EXP_SCALE
    /\ \A f \in HexFrames : PastFirstPass(f) =>
          /\ Len(rawScores[f]) = Len(cells[f])
          /\ \A i \in 1 .. Len(cells[f]) :
                LET p == cellToLatLng(cells[f][i])
                    s == AllSources
                IN  /\ rawScores[f][i] = C9_Sum(p.lat, p.lng, 1 .. Len(s))
                    /\ (Len(s) = 1 /\ p.lat = s[1].lat /\ p.lng = s[1].lng)
                          => rawScores[f][i] = s[1].weight * EXP_SCALE
                    /\ (/\ Len(s) = 2
                        /\ s[1].lat = s[2].lat /\ s[1].lng = s[2].lng
                        /\ s[1].radLat = s[2].radLat /\ s[1].radLng = s[2].radLng
                        /\ s[1].weight = -s[2].weight)
                          => rawScores[f][i] = 0

\* C9's case: a source and its exact opposite are configured, and the first
\* pass has run over at least two cells, one of them at the sources' location.
C9_Witness ==
    /\ Len(AllSources) = 2
    /\ AllSources[1].weight = -AllSources[2].weight /\ AllSources[1].weight # 0
    /\ PastFirstPass("S")
    /\ Len(rawScores["S"]) >= 2
    /\ \E i \in 1 .. Len(cells["S"]) :
          /\ cellToLatLng(cells["S"][i]).lat = AllSources[1].lat
          /\ cellToLatLng(cells["S"][i]).lng = AllSources[1].lng

\* C10: the surplus normaliser is two-pass: once a score exists, the raw value
\* of every cell is known and minRaw, maxRaw are the extremes over all of them;
\* the second pass draws one value per cell in the tiler's order, so after i
\* cells the register has made exactly i steps from the seed, the i-th record
\* belongs to the i-th cell and
\* score[i] = clamp01((raw[i] - min) / range + (r_i - 0.5) * 0.06), r_i the
\* i-th value of the sequence started at the seed.
C10_TwoPass ==
    \A f \in HexFrames : PastFirstPass(f) =>
        LET n == Len(cells[f])
            raw == rawScores[f]
            d == data[f]
        IN  /\ Len(raw) = n
            /\ Len(d) <= n
            /\ draws[f] = Len(d)
            /\ reg[f] = IterLcg(Reg32(SURPLUS_SEED), Len(d))
            /\ n > 0 =>
                  /\ \E i \in 1 .. n : stats[f].minRaw = Num(raw[i])
                  /\ \E i \in 1 .. n : stats[f].maxRaw = Num(raw[i])
                  /\ \A i \in 1 .. n :
                        stats[f].minRaw.v <= raw[i] /\ raw[i] <= stats[f].maxRaw.v
                  /\ stats[f].range = Num(stats[f].maxRaw.v - stats[f].minRaw.v)
            /\ \A i \in 1 .. Len(d) :
                  LET r == IterLcg(Reg32(SURPLUS_SEED), i).hi
                  IN  /\ d[i].h3Index = cells[f][i]
                      /\ d[i].score =
                            Clamp01(JsAdd(JsDiv(Num(raw[i] - stats[f].minRaw.v), stats[f].range),
                                          Num(Noise(r, SURPLUS_JITTER))))

\* C10's case: a surplus build over three cells of distinct raw values has
\* finished its second pass, with a score strictly inside (0, 1).
C10_Witness ==
    /\ Finished("S")
    /\ Len(cells["S"]) >= 3
    /\ draws["S"] = Len(cells["S"])
    /\ \A i, j \in 1 .. 3 : i # j => rawScores["S"][i] # rawScores["S"][j]
    /\ \E i \in 1 .. 3 :
          IsNum(data["S"][i].score) /\ 0 < data["S"][i].score.v /\ data["S"][i].score.v < SCALE

\* (1664525 * s + 1013904223) mod 2^32 by modular arithmetic on the halves of
\* the unsigned s: only the low half of each partial sum is kept.
C11_Mod32(s) ==
    LET low == 26125 * s.lo + 62303
    IN  [lo |-> low % 65536,
         hi |-> (25 * s.lo + 26125 * s.hi + (low \div 65536) + 15470) % 65536]

\* What C11 says of one call of generator g's closure from the register it holds.
C11_Draw(g) ==
    LET s == reg[g]
        v == Int32Of(s)
        d == rand(s)
    IN  /\ reg'[g] = C11_Mod32(s)
        /\ BitLen(LcgProduct(v).d2) <= EXACT_BITS
        /\ BitLen(LcgSum(v.neg, LcgProduct(v)).mag.d2) <= EXACT_BITS
        /\ d.value = [neg |-> FALSE, hi |-> reg'[g].hi, lo |-> reg'[g].lo]
        /\ d.value.hi \in 0 .. 65535 /\ d.value.lo \in 0 .. 65535
        /\ d.r \in 0 .. 65535
        /\ \A amp \in {SURPLUS_JITTER, TEMP_JITTER} :
              Abs(Noise(d.r, amp)) <= (amp * SCALE) \div 200

\* C11: every draw takes the register s to (1664525 * s + 1013904223) mod 2^32,
\* the product and the sum staying below 2^53 in magnitude, so that no double
\* rounds them; the value returned is the new register, unsigned, over
\* 2^32 - 1, hence in [0, 1]; and each jitter term (r - 0.5) * amplitude lies
\* within half the amplitude of 0.
C11_Lcg == [][\A g \in BuildFrames : draws'[g] = draws[g] + 1 => C11_Draw(g)]_vars

\* C11's case: two draws made, the second from a register that is negative as
\* a signed 32-bit value and whose product with the multiplier passes 2^32.
C11_Witness ==
    /\ draws["S"] = 2
    /\ \E s0 \in LcgRegisters :
          LET s1 == C11_Mod32(s0)
          IN  /\ s1.hi >= 32768
              /\ LcgProduct(Int32Of(s1)).d2 > 0
              /\ reg["S"] = C11_Mod32(s1)
====
